---------------------------- MODULE Spec2Model ----------------------------
(***************************************************************************)
(* Turn-taking controller of the Hue voice agent (src/wrapped_grok.py,     *)
(* class WrappedGrok).                                                     *)
(*                                                                         *)
(* The controller thread runs voice_chat: silence gate, transcription,     *)
(* process_input (silence gate, web search, completion with model          *)
(* fallback, response shaping), speak and a bounded join.  Every speak     *)
(* starts a player thread; the player starts a background listener whose   *)
(* callback sets the shared interrupt flag.  All threads communicate       *)
(* through the fields of the one WrappedGrok object.                       *)
(*                                                                         *)
(* A text is a record [none, w]: w is the sequence of its whitespace-      *)
(* separated words (what str.split() yields), none marks Python's None.    *)
(***************************************************************************)
EXTENDS Integers, Sequences, FiniteSets, TLC

(* ------------------------------ bounds -------------------------------- *)

\* Inputs voice_chat transcribes in one run; each starts at most one session.
MaxTurns == 2
\* Polls of one _wait_for_silence call before its timeout is reached.
MaxPolls == 2
\* The longest reply, in words, the response shaper is applied to.
MaxReplyLen == 12
\* Calls of stop_listening, get_violations and clear_violations by one client.
MaxCalls == 3

(* ------------------------- program constants -------------------------- *)

\* model_names, the fallback list of _query_grok.
ModelNames == <<"grok-3", "grok-beta", "grok-2", "grok-vision-beta", "grok">>

\* max_response_words, the constructor's default.
MaxResponseWords == 10

\* The length process_input cuts the search query to.
QueryChars == 150

\* chunk_size of the system TTS loop.
ChunkSize == 5

\* explain_keyword, the constructor's default (already lower case).
ExplainKeyword == "explain"

\* Words ending in '.', '!' or '?' among the words the model uses.
TerminalWords ==
  { "set.", "https://api.x.ai/v1/chat/completions.", "connection.", "out.",
    "unavailable.", "(xai-a...).", "request.", "availability.", "found.",
    "exceeded.", "again.", "fine.", "there!", "Goodbye!", "1969.", "right?" }

\* ell marks a "..." glued to the last word (truncated += '...').
Text(ws) == [none |-> FALSE, w |-> ws, ell |-> FALSE]
None == [none |-> TRUE, w |-> <<>>, ell |-> FALSE]

\* The texts _query_grok returns on its failure paths, as word sequences.
KeyNotSetText ==
  Text(<<"Error:", "Grok", "API", "key", "not", "set.", "Edit", ".env", "file",
         "and", "add", "your", "API", "key", "from", "https://console.x.ai">>)
NoResponseText ==
  Text(<<"Error:", "Could", "not", "get", "response", "from", "Grok", "(no",
         "response", "received)">>)
InvalidKeyText ==
  Text(<<"Error:", "Invalid", "Grok", "API", "key", "(xai-a...).", "Get", "a",
         "valid", "key", "from", "https://console.x.ai">>)
InvalidRequestText ==
  Text(<<"Error:", "Invalid", "request.", "Check", "API", "key", "and", "model",
         "availability.">>)
EndpointNotFoundText ==
  Text(<<"Error:", "API", "endpoint", "not", "found.", "URL:",
         "https://api.x.ai/v1/chat/completions">>)
RateLimitText ==
  Text(<<"Error:", "Rate", "limit", "exceeded.", "Wait", "a", "moment", "and",
         "try", "again.">>)
ReturnedStatusText ==
  Text(<<"Error:", "Grok", "API", "returned", "status:", "body">>)
ConnectionErrorText ==
  Text(<<"Error:", "Cannot", "connect", "to", "Grok", "API", "at",
         "https://api.x.ai/v1/chat/completions.", "Check", "your", "internet",
         "connection.">>)
TimeoutText ==
  Text(<<"Error:", "Grok", "API", "request", "timed", "out.", "The", "service",
         "may", "be", "slow", "or", "unavailable.">>)
NetworkErrorText ==
  Text(<<"Error:", "Network", "error", "connecting", "to", "Grok", "API:", "e">>)
UnexpectedErrorText ==
  Text(<<"Error:", "Unexpected", "error", "with", "Grok", "API:", "KeyError:",
         "e">>)
InterruptedText == Text(<<"Interrupted">>)
GoodbyeText == Text(<<"Goodbye!">>)

(* ------------------------------ inputs -------------------------------- *)

\* What the completion service can answer with a usable reply field.
ShortReply == Text(<<"All", "fine.">>)
LongReply ==
  Text(<<"a", "b", "c", "d", "e", "f", "g", "h", "fine.", "j", "k", "l">>)
Replies == {ShortReply, LongReply}

\* What _listen_and_transcribe can hear.
PlainInput == Text(<<"hello", "there!">>)
ExplainInput == Text(<<"Please", "EXPLAIN", "gravity">>)
ExitInput == Text(<<"Exit">>)
HeardInputs == {PlainInput, ExplainInput, ExitInput}

\* Inputs and replies for the response shaper: the keyword in three letter
\* cases, every reply of up to MaxReplyLen words that end a sentence or not,
\* and limits on either side of the five words the backward scan reaches.
LowerExplainInput == Text(<<"explain", "it">>)
MixedExplainInput == Text(<<"Explain", "please">>)
KeywordInputs == {ExplainInput, LowerExplainInput, MixedExplainInput}
ShapeInputs == {PlainInput} \cup KeywordInputs
ShapeWords == {"a", "fine."}
ShapeReplies ==
  {Text(ws) : ws \in UNION {[1..n -> ShapeWords] : n \in 0..MaxReplyLen}}
ShapeLimits == {3, 6, 10}

\* Inputs for the search step: one with a factual claim in its second
\* sentence, and two of more than 150 characters, without and with a claim.
FactInput ==
  Text(<<"Am", "I", "right?", "The", "moon", "landing", "was", "in", "1969.">>)
LongInput == Text([i \in 1..40 |-> "word"])
LongFactInput == Text([i \in 1..40 |-> IF i = 2 THEN "was" ELSE "word"])
\* One sentence with a year, and two sentences that are both claims.
MoonInput == Text(<<"The", "moon", "landing", "was", "in", "1969.">>)
TwoFactInput == Text(<<"It", "was", "fine.", "It", "is", "1969.">>)
SearchInputs ==
  {PlainInput, ExplainInput, FactInput, LongInput, LongFactInput, MoonInput,
   TwoFactInput}

\* The outcomes of one requests.post of _query_grok.
PostOutcomes ==
  { "ok", "ok_unusable", "ok_null", "s204", "s400_model", "s400_other", "s401",
    "s404", "s429", "s500", "connection_error", "timeout", "request_exception" }

\* The outcomes of one search of _search_web.
SearchOutcomes == {"context", "empty", "failed"}

\* The outcomes of recognize_google inside _interruption_callback.
RecognizeOutcomes ==
  {"text", "empty", "unknown_value", "request_error", "other_error"}

\* exit_phrases_lower of voice_chat, as example_voice_chat.py and the default
\* give them.
ExitPhrases == {"exit", "quit", "goodbye", "stop", "end"}

(* ------------------------------- state -------------------------------- *)

VARIABLES
  \* fields of the WrappedGrok object
  speaking,                 \* self.speaking
  interrupt_speech,         \* self.interrupt_speech
  background_listener_stop, \* 0 (None), or the listener the stop function stops
  speech_thread,            \* 0 (None), or the latest player thread
  is_listening,             \* self.is_listening
  use_elevenlabs,           \* self.use_elevenlabs (and elevenlabs_available)
  violations,               \* self.violations
  \* configuration fixed at construction / import
  api_key_set,              \* grok_api_key is a real key, not the placeholder
  serpapi_installed,        \* GoogleSearch is not None
  max_response_words,       \* self.max_response_words
  \* the controller thread (voice_chat and what it calls)
  pc,                       \* its position
  polls,                    \* iterations of the running _wait_for_silence
  turns,                    \* inputs transcribed so far
  user_input,               \* the transcribed input
  gate,                     \* what _wait_for_silence returned to process_input
  search_calls,             \* searches issued by the running process_input
  search_log,               \* the calls of _search_web it made: the query of
                            \* each, whether a request went out, the outcome
  search_context,           \* TRUE iff _search_web returned a context
  attempts,                 \* requests posted by the running _query_grok: the
                            \* model of each and what came back
  last_response,            \* the last response received, NoResponse for None
  qresult,                  \* what _query_grok returned: [kind, text]
  response,                 \* what process_input returned
  \* the player threads and their background listeners, one per session
  player,
  listener,
  \* history: the sessions during which interrupt_speech has become true
  hit,
  \* a caller of stop_listening, get_violations and clear_violations: the
  \* operation it called last, how many it has called, what the last
  \* get_violations returned
  client,
  \* the conversation store of api_server.py
  db,                       \* the backend behind db: "firebase", "sqlite", or
                            \* "none" where api_server is not imported
  conversations,            \* the ids of the stored conversations, in the
                            \* order of updated_at, the most recent first
  messages,                 \* the stored messages: [id, conversation_id]
  now,                      \* time.time() in milliseconds
  request,                  \* the chat request being handled
  cleaned                   \* history: whether the last store operation ended
                            \* with cleanup_old_conversations, and the
                            \* conversations that call found

objvars == <<speaking, interrupt_speech, background_listener_stop, speech_thread,
             is_listening, use_elevenlabs>>
cfgvars == <<api_key_set, serpapi_installed, max_response_words>>
turnvars == <<gate, search_calls, search_log, search_context, attempts,
              last_response, qresult, response>>
ctlvars == <<pc, polls, turns, user_input>>
thrvars == <<player, listener, hit>>
dbvars == <<db, conversations, messages, now, request, cleaned>>
vars == <<objvars, violations, cfgvars, ctlvars, turnvars, thrvars, client,
          dbvars>>

Sessions == 1..MaxTurns

NoResult == [kind |-> "none", text |-> None]

\* The caller has called nothing yet.
NoCall == [op |-> "none", n |-> 0, got |-> <<>>]

\* A log entry that loses the numbers of its message.
ViolationWithoutCounts(msg, a, b) == [message |-> msg, a |-> 0, b |-> 0]

\* self.violations.append({'timestamp': ..., 'message': message}); a and b are
\* the numbers the message carries (0 when it carries none).
Violation(msg, a, b) == [message |-> msg, a |-> a, b |-> b]

\* The newest entry first.
LogViolationFront(log, msg) == <<Violation(msg, 0, 0)>> \o log

LogViolation(log, msg) == Append(log, Violation(msg, 0, 0))

(* -------------------------- Response Shaper --------------------------- *)

\* str.lower() on the words the model uses.
Lower(word) ==
  CASE word = "EXPLAIN" -> "explain"
    [] word = "Explain" -> "explain"
    [] word = "Please" -> "please"
    [] word = "Exit" -> "exit"
    [] OTHER -> word

\* A check of the keyword that does not lower the input.
ContainsKeywordCaseSensitive(text) ==
  \E i \in 1..Len(text.w) : text.w[i] = ExplainKeyword

\* self.explain_keyword in user_input.lower(), for inputs whose words hold the
\* keyword as a whole word or not at all.
ContainsKeyword(text) ==
  \E i \in 1..Len(text.w) : Lower(text.w[i]) = ExplainKeyword

EndsTerminal(text) ==
  /\ Len(text.w) > 0
  /\ ~text.ell
  /\ text.w[Len(text.w)] \in TerminalWords

Max2(a, b) == IF a >= b THEN a ELSE b
Min2(a, b) == IF a <= b THEN a ELSE b

\* The indices (1-based word counts) the backward scan visits:
\* range(min(max, len) - 1, max(0, max - 5), -1), plus one for the prefix length.
ScanRange(n, maxw) == { j \in 1..n : j <= Min2(maxw, n) /\ j >= Max2(0, maxw - 5) + 2 }

Boundaries(words, maxw) ==
  { j \in ScanRange(Len(words), maxw) : words[j] \in TerminalWords }

SetMax(S) == CHOOSE x \in S : \A y \in S : y <= x

\* A cut one word late.
TruncateOneMore(words, maxw) == Text(SubSeq(words, 1, maxw + 1))

\* The truncation _limit_response_length computes for a reply of more than
\* maxw words.
Truncate(words, maxw) ==
  LET original == Text(SubSeq(words, 1, maxw))
      found == Boundaries(words, maxw)
      truncated == IF found = {} THEN original
                   ELSE Text(SubSeq(words, 1, SetMax(found)))
  IN IF Len(truncated.w) > maxw
       THEN IF EndsTerminal(original) THEN original
            ELSE [original EXCEPT !.ell = TRUE]
       ELSE truncated

\* A shaper that is off by one at the limit.
TruncatesFromLimit(reply, input, maxw) ==
  ~ContainsKeyword(input) /\ Len(reply.w) >= maxw

Truncates(reply, input, maxw) ==
  ~ContainsKeyword(input) /\ Len(reply.w) > maxw

\* _limit_response_length on a str reply.
LimitResponseLength(reply, input, maxw) ==
  IF Truncates(reply, input, maxw) THEN Truncate(reply.w, maxw) ELSE reply

\* _limit_response_length raises (None has no split) instead of returning.
ShapeRaises(reply, input) == reply.none /\ ~ContainsKeyword(input)

(* ------------------------- Context Augmenter -------------------------- *)

\* The patterns of _extract_factual_claims on the words the model uses.
YearWords == {"1969"}
CopulaWords == {"is", "was", "are", "were"}
PercentWords == {"percent", "percentage"}

\* The word without the '.', '!' or '?' it ends in.
Bare(word) ==
  IF word \in TerminalWords THEN SubSeq(word, 1, Len(word) - 1) ELSE word

\* The 1-based positions that end a sentence: re.split(r'[.!?]+', text), for
\* texts whose punctuation stands at the end of words.
SentenceEnds(words) ==
  {i \in 1..Len(words) : words[i] \in TerminalWords} \cup {Len(words)}

\* The sentence ending at position e, stripped, as words.
SentenceAt(words, e) ==
  LET before == {i \in SentenceEnds(words) : i < e}
      start == IF before = {} THEN 1 ELSE SetMax(before) + 1
  IN [i \in 1..(e - start + 1) |->
        IF start + i - 1 = e THEN Bare(words[e]) ELSE words[start + i - 1]]

\* re.search(pattern, sentence, re.IGNORECASE) for one of the patterns: a year,
\* a copula followed by a word, or a percentage marker.
\* The first pattern alone.
IsClaimByYear(sentence) ==
  \E i \in 1..Len(sentence) : sentence[i] \in YearWords

\* One of the patterns of lines 310-315 matches the sentence.
IsClaim(sentence) ==
  \E i \in 1..Len(sentence) :
    \/ sentence[i] \in YearWords
    \/ Lower(sentence[i]) \in CopulaWords /\ i < Len(sentence)
    \/ Lower(sentence[i]) \in PercentWords

\* The end positions of the sentences _extract_factual_claims keeps, in order.
ExtractFactualClaims(words) ==
  {e \in SentenceEnds(words) : IsClaim(SentenceAt(words, e))}

RECURSIVE CharLen(_)
\* len(' '.join(words)).
CharLen(words) ==
  IF Len(words) = 0 THEN 0
  ELSE IF Len(words) = 1 THEN Len(words[1])
  ELSE Len(words[1]) + 1 + CharLen(Tail(words))

\* A query that is not cut.
SearchQueryUncut(input) ==
  LET claims == ExtractFactualClaims(input.w)
      first == CHOOSE e \in claims : \A f \in claims : e <= f
      source == IF claims # {} THEN SentenceAt(input.w, first) ELSE input.w
  IN [from |-> IF claims # {} THEN "claim" ELSE "input",
      words |-> source,
      chars |-> CharLen(source)]

\* The query process_input searches with: claims[0][:150] when there is a
\* claim, user_input[:150] otherwise; chars is the length of the query.
SearchQuery(input) ==
  LET claims == ExtractFactualClaims(input.w)
      first == CHOOSE e \in claims : \A f \in claims : e <= f
      source == IF claims # {} THEN SentenceAt(input.w, first) ELSE input.w
  IN [from |-> IF claims # {} THEN "claim" ELSE "input",
      words |-> source,
      chars |-> Min2(CharLen(source), QueryChars)]

(* ------------------------- Completion Client -------------------------- *)

\* bool(last_response): requests.Response is truthy iff its status is no error
\* status (below 400); None is falsy.
Truthy(status) == status # 0 /\ status < 400

StatusOf(outcome) ==
  CASE outcome \in {"ok", "ok_unusable", "ok_null"} -> 200
    [] outcome = "s204" -> 204
    [] outcome \in {"s400_model", "s400_other"} -> 400
    [] outcome = "s401" -> 401
    [] outcome = "s404" -> 404
    [] outcome = "s429" -> 429
    [] OTHER -> 500

\* "last_response = None" (line 382).
NoResponse == [status |-> 0, content |-> None]

\* The response object of requests.post (line 395): its status and, for a
\* 200 that carries one, the reply at ["choices"][0]["message"]["content"].
Received(outcome, reply) ==
  [status |-> StatusOf(outcome),
   content |-> IF outcome = "ok" THEN reply ELSE None]

\* The error text chosen after the model loop, by the last response's status.
ClassifyText(status) ==
  CASE status = 401 -> InvalidKeyText
    [] status = 400 -> InvalidRequestText
    [] status = 404 -> EndpointNotFoundText
    [] status = 429 -> RateLimitText
    [] OTHER -> ReturnedStatusText

\* A loop body that goes on only for a status that is neither 200 nor 400.
GoesOnOtherStatus(outcome) == outcome \notin {"s400_model", "s400_other"}

\* The loop body's decision on a response that is not a 200: TRUE to go on to
\* the next model (the continue of a "model not available" 400, or falling off
\* the if/elif for a status that is neither 200 nor 400), FALSE for the break.
GoesOn(outcome) == outcome # "s400_other"

\* A loop that hands over to the shaping step when it ends without a return.
AfterAttemptShapes(i, outcome) ==
  IF GoesOn(outcome) /\ i < Len(ModelNames) THEN "q_loop" ELSE "pi_shape"

\* The next position of the model loop after the attempt at index i.
AfterAttempt(i, outcome) ==
  IF GoesOn(outcome) /\ i < Len(ModelNames) THEN "q_loop" ELSE "q_after"

(* ------------------------------- Init --------------------------------- *)

\* played counts the words played to their end; cut tells that a chunk was not
\* (say did not start, or was killed).
IdlePlayer ==
  [pc |-> "idle", n |-> 0, i |-> 0, gen |-> "none", mon |-> "none",
   played |-> 0, cut |-> FALSE]
IdleListener == [state |-> "none", cb |-> "idle"]

\* The state after __init__ (lines 83-153).
Constructed ==
  /\ speaking = FALSE
  /\ interrupt_speech = FALSE
  /\ background_listener_stop = 0
  /\ speech_thread = 0
  /\ is_listening = FALSE
  /\ use_elevenlabs \in BOOLEAN
  /\ violations = <<>>
  /\ api_key_set \in BOOLEAN
  /\ serpapi_installed \in BOOLEAN
  /\ max_response_words = MaxResponseWords
  /\ polls = 0
  /\ turns = 0
  /\ user_input = None
  /\ gate = "none"
  /\ search_calls = 0
  /\ search_log = <<>>
  /\ search_context = FALSE
  /\ attempts = <<>>
  /\ last_response = NoResponse
  /\ qresult = NoResult
  /\ response = None
  /\ player = [s \in Sessions |-> IdlePlayer]
  /\ listener = [s \in Sessions |-> IdleListener]
  /\ hit = {}
  /\ client = NoCall

\* None as conversation_id or message_id of a request.
NoId == 0

\* No request is being handled; n counts the requests received.
NoRequest == [kind |-> "none", conversation_id |-> NoId, message_id |-> NoId,
              n |-> 0]

\* The last store operation did not end with the cleanup.
NotCleaned == [ran |-> FALSE, before |-> <<>>]

\* api_server.py is not imported: there is no store.
NoStore ==
  /\ db = "none"
  /\ conversations = <<>>
  /\ messages = {}
  /\ now = 0
  /\ request = NoRequest
  /\ cleaned = NotCleaned

\* voice_chat() is called on the constructed object.
Init == Constructed /\ pc = "vc_silence" /\ NoStore

(* ---------------------------- silence gate ---------------------------- *)

\* _wait_for_silence: the loop condition holds and interrupt_speech is read
\* true: return False.
WaitInterrupted(at) ==
  /\ pc = at
  /\ polls < MaxPolls
  /\ interrupt_speech

\* The loop condition holds, interrupt_speech is read false: sleep and loop.
WaitPoll(at) ==
  /\ pc = at
  /\ polls < MaxPolls
  /\ ~interrupt_speech
  /\ polls' = polls + 1

\* The loop condition fails (silence_timeout has elapsed; the first test
\* follows start_time directly and never fails): return True.
WaitElapsed(at) ==
  /\ pc = at
  /\ polls >= 1

(* ------------------------------- speak -------------------------------- *)

\* _speak_text lines 508-509 and 646-647: set the flags, start the thread s.
SpeakTextSkipsMonitor(s, text) ==
  /\ speaking' = TRUE
  /\ interrupt_speech' = FALSE
  /\ speech_thread' = s
  /\ player' = [player EXCEPT ![s] =
                  [pc |-> "p_branch", n |-> Len(text.w), i |-> 0,
                   gen |-> "none", mon |-> "none", played |-> 0,
                   cut |-> FALSE]]
  /\ UNCHANGED <<background_listener_stop, is_listening, use_elevenlabs,
                 listener, hit>>

SpeakText(s, text) ==
  /\ speaking' = TRUE
  /\ interrupt_speech' = FALSE
  /\ speech_thread' = s
  /\ player' = [player EXCEPT ![s] =
                  [pc |-> "p_start", n |-> Len(text.w), i |-> 0,
                   gen |-> "none", mon |-> "none", played |-> 0,
                   cut |-> FALSE]]
  /\ UNCHANGED <<background_listener_stop, is_listening, use_elevenlabs,
                 listener, hit>>

(* --------------------- _query_grok (lines 327-467) -------------------- *)

\* The list walked from its end.
ModelAtReversed(i) == ModelNames[Len(ModelNames) + 1 - i]

\* The model of the i-th iteration of "for model_name in model_names".
ModelAt(i) == ModelNames[i]

\* Only a 200 response leaves the loop.
ReturnsOn200(outcome) == outcome \in {"ok", "ok_null", "ok_unusable"}

\* TRUE iff the attempt leaves _query_grok from inside the loop: the return of
\* a 200 response (line 406, or the exception its subscripts raise) and the
\* exceptions of requests.post (lines 448-462).
Returns(outcome) ==
  outcome \in {"ok", "ok_null", "ok_unusable", "connection_error", "timeout",
               "request_exception"}

\* What _query_grok returns when the attempt leaves it.
ReturnOf(outcome, reply) ==
  CASE outcome = "ok" -> [kind |-> "reply", text |-> reply]
    [] outcome = "ok_null" -> [kind |-> "null", text |-> None]
    [] outcome = "ok_unusable" ->
         [kind |-> "unexpected_error", text |-> UnexpectedErrorText]
    [] outcome = "connection_error" ->
         [kind |-> "connection_error", text |-> ConnectionErrorText]
    [] outcome = "timeout" -> [kind |-> "timeout", text |-> TimeoutText]
    [] OTHER -> [kind |-> "request_error", text |-> NetworkErrorText]

\* The violation the except clauses log for the attempt, "" for none.
ExceptionViolation(outcome) ==
  CASE outcome = "ok_unusable" -> "Grok API unexpected error"
    [] outcome = "connection_error" -> "Grok API connection error"
    [] outcome = "timeout" -> "Grok API timeout"
    [] outcome = "request_exception" -> "Grok API request error"
    [] OTHER -> ""

\* Lines 330-334: the key is the placeholder: log and return.
QueryKeyNotSet ==
  /\ pc = "q_start"
  /\ ~api_key_set
  /\ violations' = LogViolation(violations, "Grok API key not configured")
  /\ qresult' = [kind |-> "key_not_set", text |-> KeyNotSetText]
  /\ pc' = "pi_shape"
  /\ UNCHANGED <<objvars, cfgvars, client, dbvars, polls, turns, user_input, gate,
                 search_calls, search_log, search_context, attempts, last_response, response,
                 thrvars>>

\* Lines 336-382: build the messages and enter the model loop.
QueryStart ==
  /\ pc = "q_start"
  /\ api_key_set
  /\ pc' = "q_loop"
  /\ UNCHANGED <<objvars, violations, cfgvars, client, dbvars, polls, turns, user_input,
                 turnvars, thrvars>>

\* Lines 384-416 and 448-467: one iteration of the model loop.
QueryPost(outcome, reply) ==
  /\ pc = "q_loop"
  /\ Len(attempts) < Len(ModelNames)
  /\ attempts' = Append(attempts, [model |-> ModelAt(Len(attempts) + 1),
                                    user |-> user_input,
                                    context |-> search_context,
                                    outcome |-> outcome])
  /\ IF Returns(outcome)
       THEN /\ qresult' = ReturnOf(outcome, reply)
            /\ pc' = "pi_shape"
            /\ last_response' =
                 IF outcome \in {"ok", "ok_null", "ok_unusable"}
                   THEN Received(outcome, reply) ELSE last_response
            /\ violations' =
                 IF ExceptionViolation(outcome) = "" THEN violations
                 ELSE LogViolation(violations, ExceptionViolation(outcome))
       ELSE /\ last_response' = Received(outcome, reply)
            /\ pc' = AfterAttempt(Len(attempts) + 1, outcome)
            /\ UNCHANGED <<qresult, violations>>
  /\ UNCHANGED <<objvars, cfgvars, client, dbvars, polls, turns, user_input, gate,
                 search_calls, search_log, search_context, response, thrvars>>

\* Lines 418-447: after the loop.
QueryAfterLoop ==
  /\ pc = "q_after"
  /\ IF Truthy(last_response.status)
       THEN /\ violations' = Append(violations,
                               Violation("Grok API error", last_response.status, 0))
            /\ qresult' = [kind |-> "http_error",
                           text |-> ClassifyText(last_response.status)]
       ELSE /\ qresult' = [kind |-> "no_response", text |-> NoResponseText]
            /\ UNCHANGED violations
  /\ pc' = "pi_shape"
  /\ UNCHANGED <<objvars, cfgvars, client, dbvars, polls, turns, user_input, gate,
                 search_calls, search_log, search_context, attempts, last_response, response,
                 thrvars>>

(* -------------------- process_input (lines 658-700) ------------------- *)

\* The locals of an iteration (user_input, response and the frames of the
\* calls it made) are gone once the iteration has used them.
ForgetTurn ==
  /\ user_input' = None
  /\ gate' = "none"
  /\ search_calls' = 0
  /\ search_log' = <<>>
  /\ search_context' = FALSE
  /\ attempts' = <<>>
  /\ last_response' = NoResponse
  /\ qresult' = NoResult
  /\ response' = None

\* A process_input that goes on whatever _wait_for_silence returned.
GateNextIgnored(passed) == "pi_search"

\* Where process_input goes after _wait_for_silence returned `passed`.
GateNext(passed) == IF passed THEN "pi_search" ELSE "pi_returned"

\* Lines 669-671: the wait was interrupted.
ProcessInterrupted ==
  /\ WaitInterrupted("pi_silence")
  /\ violations' =
       LogViolation(violations, "Response generated without silence timeout")
  /\ response' = InterruptedText
  /\ gate' = "interrupted"
  /\ pc' = GateNext(FALSE)
  /\ UNCHANGED <<objvars, cfgvars, client, dbvars, polls, turns, user_input, search_calls, search_log,
                 search_context, attempts, last_response, qresult, thrvars>>

ProcessPoll ==
  /\ WaitPoll("pi_silence")
  /\ UNCHANGED <<objvars, violations, cfgvars, client, dbvars, pc, turns, user_input, turnvars,
                 thrvars>>

ProcessSilent ==
  /\ WaitElapsed("pi_silence")
  /\ gate' = "passed"
  /\ pc' = GateNext(TRUE)
  /\ UNCHANGED <<objvars, violations, cfgvars, client, dbvars, polls, turns, user_input,
                 search_calls, search_log, search_context, attempts, last_response, qresult,
                 response, thrvars>>

\* A _search_web that only an empty result leaves without context.
(* ---------------- _search_web's context (lines 275-300) --------------- *)

\* The answer box ("" for none, or one without answer and snippet) and the
\* organic results of the response that search.get_dict() returns for an
\* outcome of the search.
OrganicResult(k, snippet) == [title |-> "t" \o k, snippet |-> snippet]
ResponseOf(outcome) ==
  CASE outcome = "context" ->
         [answer |-> "", organic |-> <<OrganicResult("1", "s1")>>]
    [] outcome = "empty" -> [answer |-> "", organic |-> <<>>]
    [] outcome = "no_snippets" ->
         [answer |-> "", organic |-> <<OrganicResult("1", "")>>]
    [] outcome = "answer_only" -> [answer |-> "42", organic |-> <<>>]
    [] outcome = "answer_no_snippets" ->
         [answer |-> "42", organic |-> <<OrganicResult("1", "")>>]
    [] outcome = "answer_and_four" ->
         [answer |-> "42",
          organic |-> <<OrganicResult("1", "s1"), OrganicResult("2", ""),
                        OrganicResult("3", "s3"), OrganicResult("4", "s4")>>]

\* The responses of the search that differ in answer box and organic results.
ResponseShapes ==
  {"no_snippets", "answer_only", "answer_no_snippets", "answer_and_four"}

\* Lines 279-293: context_parts.
ContextParts(r) ==
  LET top == SubSeq(r.organic, 1, Min2(3, Len(r.organic)))
      kept == SelectSeq(top, LAMBDA o : o.snippet # "")
  IN (IF r.answer # "" THEN <<"Direct answer: " \o r.answer>> ELSE <<>>)
     \o [k \in 1..Len(kept) |-> kept[k].title \o ": " \o kept[k].snippet]

RECURSIVE JoinParts(_)
\* " | ".join(context_parts).
JoinParts(parts) ==
  IF Len(parts) = 1 THEN parts[1]
  ELSE parts[1] \o " | " \o JoinParts(Tail(parts))

\* Lines 275-300: the value _search_web returns for the response r.
SearchWeb(r) ==
  IF Len(r.organic) > 0 /\ ContextParts(r) # <<>>
    THEN [none |-> FALSE, text |-> JoinParts(ContextParts(r))]
    ELSE [none |-> TRUE, text |-> ""]

SearchReturnsContextUnlessEmpty(outcome) == outcome # "empty"

\* TRUE iff _search_web returns a context: results with snippets do, empty
\* results and an exception of the search (lines 300-304) do not.
SearchReturnsContext(outcome) ==
  outcome # "failed" /\ ~SearchWeb(ResponseOf(outcome)).none

\* Lines 674-692 with _search_web (lines 260-304): one search.
ProcessSearch(outcome) ==
  /\ pc = "pi_search"
  /\ search_calls' = search_calls + 1
  /\ search_log' = Append(search_log,
                         [query |-> SearchQuery(user_input),
                          requested |-> serpapi_installed,
                          outcome |-> IF serpapi_installed THEN outcome
                                      ELSE "not_installed"])
  /\ IF ~serpapi_installed
       THEN /\ violations' = LogViolation(violations,
                 "Web search attempted but SerpAPI not installed")
            /\ search_context' = FALSE
       ELSE /\ violations' =
                 IF outcome = "failed"
                   THEN LogViolation(violations, "Web search failed")
                   ELSE violations
            /\ search_context' = SearchReturnsContext(outcome)
  /\ pc' = "q_start"
  /\ UNCHANGED <<objvars, cfgvars, client, dbvars, polls, turns, user_input, gate, attempts,
                 last_response, qresult, response, thrvars>>

\* Line 698 and the return: shape what _query_grok returned.
ProcessShape ==
  /\ pc = "pi_shape"
  /\ ~ShapeRaises(qresult.text, user_input)
  /\ response' = LimitResponseLength(qresult.text, user_input,
                                     max_response_words)
  /\ violations' =
       IF ~qresult.text.none
          /\ Truncates(qresult.text, user_input, max_response_words)
         THEN Append(violations,
                Violation("Response truncated", Len(qresult.text.w),
                          Len(Truncate(qresult.text.w, max_response_words).w)))
         ELSE violations
  /\ pc' = "pi_returned"
  /\ UNCHANGED <<objvars, cfgvars, client, dbvars, polls, turns, user_input, gate,
                 search_calls, search_log, search_context, attempts, last_response, qresult,
                 thrvars>>

\* Line 698 raises on a None reply (None has no split): process_input is left
\* by the exception.
ProcessShapeRaises ==
  /\ pc = "pi_shape"
  /\ ShapeRaises(qresult.text, user_input)
  /\ pc' = "pi_raised"
  /\ UNCHANGED <<objvars, violations, cfgvars, client, dbvars, polls, turns, user_input,
                 turnvars, thrvars>>

(* ---------------------- voice_chat (lines 766-825) -------------------- *)

\* Line 799: user_input.lower() in exit_phrases_lower.
\* user_input in exit_phrases_lower, without the lower().
IsExitPhraseCaseSensitive(text) == Len(text.w) = 1 /\ text.w[1] \in ExitPhrases

\* Line 799: user_input.lower() in exit_phrases_lower.
IsExitPhrase(text) == Len(text.w) = 1 /\ Lower(text.w[1]) \in ExitPhrases

\* Line 809: response and response != "Interrupted".
Speakable(text) == ~text.none /\ Len(text.w) > 0 /\ text # InterruptedText

\* Lines 784-785: the wait was interrupted: continue.
ChatInterrupted ==
  /\ WaitInterrupted("vc_silence")
  /\ polls' = 0
  /\ UNCHANGED <<objvars, violations, cfgvars, client, dbvars, pc, turns, user_input, turnvars,
                 thrvars>>

ChatPoll ==
  /\ WaitPoll("vc_silence")
  /\ UNCHANGED <<objvars, violations, cfgvars, client, dbvars, pc, turns, user_input, turnvars,
                 thrvars>>

ChatSilent ==
  /\ WaitElapsed("vc_silence")
  /\ pc' = "vc_listen"
  /\ UNCHANGED <<objvars, violations, cfgvars, client, dbvars, polls, turns, user_input,
                 turnvars, thrvars>>

\* Lines 789-792: nothing transcribed: continue.
ChatHeardNothing ==
  /\ pc = "vc_listen"
  /\ pc' = "vc_silence"
  /\ polls' = 0
  /\ UNCHANGED <<objvars, violations, cfgvars, client, dbvars, turns, user_input, turnvars,
                 thrvars>>

\* Lines 789-796: an input was transcribed.
ChatHeard(text) ==
  /\ pc = "vc_listen"
  /\ turns < MaxTurns
  /\ turns' = turns + 1
  /\ user_input' = text
  /\ pc' = "vc_heard"
  /\ UNCHANGED <<objvars, violations, cfgvars, client, dbvars, polls, turnvars, thrvars>>

\* Lines 799-802: the exit phrase: speak the goodbye and leave the loop.
ChatExit ==
  /\ pc = "vc_heard"
  /\ IsExitPhrase(user_input)
  /\ SpeakText(turns, GoodbyeText)
  /\ pc' = "vc_finally"
  /\ ForgetTurn
  /\ UNCHANGED <<violations, cfgvars, client, dbvars, polls, turns>>

\* Line 806: call process_input.
ChatProcess ==
  /\ pc = "vc_heard"
  /\ ~IsExitPhrase(user_input)
  /\ pc' = "pi_silence"
  /\ polls' = 0
  /\ UNCHANGED <<objvars, violations, cfgvars, client, dbvars, turns, user_input, turnvars,
                 thrvars>>

\* Lines 809-811: speak the response.
ChatSpeak ==
  /\ pc = "pi_returned"
  /\ Speakable(response)
  /\ SpeakText(turns, response)
  /\ pc' = "vc_join"
  /\ ForgetTurn
  /\ UNCHANGED <<violations, cfgvars, client, dbvars, polls, turns>>

\* Line 809 fails: nothing to speak, next iteration.
ChatSkipSpeak ==
  /\ pc = "pi_returned"
  /\ ~Speakable(response)
  /\ pc' = "vc_silence"
  /\ polls' = 0
  /\ ForgetTurn
  /\ UNCHANGED <<objvars, violations, cfgvars, client, dbvars, turns, thrvars>>

\* Lines 814-815: the thread has ended (is_alive() false, or join returns).
ChatJoined ==
  /\ pc = "vc_join"
  /\ player[speech_thread].pc = "p_done"
  /\ pc' = "vc_silence"
  /\ polls' = 0
  /\ UNCHANGED <<objvars, violations, cfgvars, client, dbvars, turns, user_input, turnvars,
                 thrvars>>

\* Line 815: join(timeout=30) returns after 30 s with the thread still alive.
ChatJoinTimeout ==
  /\ pc = "vc_join"
  /\ player[speech_thread].pc # "p_done"
  /\ pc' = "vc_silence"
  /\ polls' = 0
  /\ UNCHANGED <<objvars, violations, cfgvars, client, dbvars, turns, user_input, turnvars,
                 thrvars>>

\* Lines 819-821: the handler of voice_chat logs the exception.
ChatHandlesError ==
  /\ pc = "pi_raised"
  /\ violations' = LogViolation(violations, "Voice chat error")
  /\ pc' = "vc_finally"
  /\ ForgetTurn
  /\ UNCHANGED <<objvars, cfgvars, client, dbvars, polls, turns, thrvars>>

\* Lines 822-825: stop_listening() and self.speaking = False.
ChatFinally ==
  /\ pc = "vc_finally"
  /\ is_listening' = FALSE
  /\ speaking' = FALSE
  /\ pc' = "vc_done"
  /\ UNCHANGED <<interrupt_speech, background_listener_stop, speech_thread,
                 use_elevenlabs, violations, cfgvars, client, dbvars, polls, turns, user_input,
                 turnvars, thrvars>>

(* ------------- the player thread, speak() (lines 511-644) ------------- *)

SetPc(s, to) == player' = [player EXCEPT ![s].pc = to]

\* The sessions whose player has not yet set speaking to False.
Playing == { s \in Sessions : player[s].pc \notin {"idle", "p_stop", "p_done"} }

\* The sessions whose player thread runs.
Alive == { s \in Sessions : player[s].pc \notin {"idle", "p_done"} }

\* Line 514, _start_interruption_detection (lines 208-242): return at once when
\* not speaking; else start the background listener and keep its stop
\* function, or log the failure and go on without one.
PlayerStartMonitor(s, started) ==
  /\ player[s].pc = "p_start"
  /\ IF speaking /\ started
       THEN /\ listener' = [listener EXCEPT ![s].state = "running"]
            /\ background_listener_stop' = s
       ELSE UNCHANGED <<listener, background_listener_stop>>
  /\ player' = [player EXCEPT
                  ![s].pc = "p_branch",
                  ![s].mon = IF speaking /\ started THEN "started"
                             ELSE "not_started"]
  /\ UNCHANGED <<speaking, interrupt_speech, speech_thread, is_listening,
                 use_elevenlabs, violations, cfgvars, client, dbvars, ctlvars, turnvars, hit>>

\* Lines 517-543: the ElevenLabs branch starts the generation thread.
PlayerBranchElevenLabs(s) ==
  /\ player[s].pc = "p_branch"
  /\ use_elevenlabs
  /\ player' = [player EXCEPT ![s].pc = "el_wait", ![s].gen = "pending"]
  /\ UNCHANGED <<objvars, violations, cfgvars, client, dbvars, ctlvars, turnvars, listener, hit>>

\* Line 520 fails: on to the system TTS test of line 570.
PlayerBranchSystem(s) ==
  /\ player[s].pc = "p_branch"
  /\ ~use_elevenlabs
  /\ SetPc(s, "tts_gate")
  /\ UNCHANGED <<objvars, violations, cfgvars, client, dbvars, ctlvars, turnvars, listener, hit>>

\* Lines 528-539: generate_audio ends, with audio or with an error.
GenerateAudio(s, result) ==
  /\ player[s].gen = "pending"
  /\ player' = [player EXCEPT ![s].gen = result]
  /\ UNCHANGED <<objvars, violations, cfgvars, client, dbvars, ctlvars, turnvars, listener, hit>>

\* Lines 546-550: the wait ends, the audio being generated or the flag set.
ElevenLabsWaitEnds(s) ==
  /\ player[s].pc = "el_wait"
  /\ player[s].gen # "pending" \/ interrupt_speech
  /\ SetPc(s, "el_check")
  /\ UNCHANGED <<objvars, violations, cfgvars, client, dbvars, ctlvars, turnvars, listener, hit>>

\* Lines 552-553 and 563-567 without the fall-through: the error ends the
\* utterance.
ElevenLabsGenerationFailedEndsSpeech(s) ==
  /\ player[s].pc = "el_check"
  /\ player[s].gen = "error"
  /\ use_elevenlabs' = FALSE
  /\ player' = [player EXCEPT ![s].pc = "p_end", ![s].gen = "raised"]
  /\ UNCHANGED <<speaking, interrupt_speech, background_listener_stop,
                 speech_thread, is_listening, violations, cfgvars, client, dbvars, ctlvars,
                 turnvars, listener, hit>>

\* Lines 552-553 and 563-567: the generation error is raised and handled.
ElevenLabsGenerationFailed(s) ==
  /\ player[s].pc = "el_check"
  /\ player[s].gen = "error"
  /\ use_elevenlabs' = FALSE
  /\ player' = [player EXCEPT ![s].pc = "tts_gate", ![s].gen = "raised"]
  /\ UNCHANGED <<speaking, interrupt_speech, background_listener_stop,
                 speech_thread, is_listening, violations, cfgvars, client, dbvars, ctlvars,
                 turnvars, listener, hit>>

\* Lines 555-559: play the audio unless interrupted.
ElevenLabsPlayStarts(s) ==
  /\ player[s].pc = "el_check"
  /\ player[s].gen = "ok"
  /\ ~interrupt_speech
  /\ SetPc(s, "el_play")
  /\ UNCHANGED <<objvars, violations, cfgvars, client, dbvars, ctlvars, turnvars, listener, hit>>

\* Line 555 fails: nothing is played.
ElevenLabsPlaySkipped(s) ==
  /\ player[s].pc = "el_check"
  /\ player[s].gen # "error"
  /\ player[s].gen # "ok" \/ interrupt_speech
  /\ SetPc(s, "tts_gate")
  /\ UNCHANGED <<objvars, violations, cfgvars, client, dbvars, ctlvars, turnvars, listener, hit>>

\* Line 559 returns, the audio of the whole text played, or raises (lines
\* 563-567).
ElevenLabsPlayEnds(s, raised) ==
  /\ player[s].pc = "el_play"
  /\ use_elevenlabs' = IF raised THEN FALSE ELSE use_elevenlabs
  /\ player' = [player EXCEPT
                  ![s].pc = "tts_gate",
                  ![s].gen = IF raised THEN "play_error" ELSE @,
                  ![s].played = IF raised THEN @ ELSE player[s].n]
  /\ UNCHANGED <<speaking, interrupt_speech, background_listener_stop,
                 speech_thread, is_listening, violations, cfgvars, client, dbvars, ctlvars,
                 turnvars, listener, hit>>

\* Lines 570-573: the system TTS runs when ElevenLabs is off.
SystemTtsGate(s) ==
  /\ player[s].pc = "tts_gate"
  /\ player' = [player EXCEPT
                  ![s].pc = IF ~use_elevenlabs THEN "tts_check" ELSE "p_end",
                  ![s].i = 0]
  /\ UNCHANGED <<objvars, violations, cfgvars, client, dbvars, ctlvars, turnvars, listener, hit>>

\* Line 575: the range is exhausted.
ChunksDone(s) ==
  /\ player[s].pc = "tts_check"
  /\ player[s].i >= player[s].n
  /\ SetPc(s, "p_end")
  /\ UNCHANGED <<objvars, violations, cfgvars, client, dbvars, ctlvars, turnvars, listener, hit>>

\* Lines 577-585: interrupted before the chunk: break.
ChunkBreak(s) ==
  /\ player[s].pc = "tts_check"
  /\ player[s].i < player[s].n
  /\ interrupt_speech
  /\ SetPc(s, "p_end")
  /\ UNCHANGED <<objvars, violations, cfgvars, client, dbvars, ctlvars, turnvars, listener, hit>>

\* Lines 577 and 587-592: not interrupted: start say on the chunk (or Popen
\* raises, lines 612-613).
ChunkStart(s, raised) ==
  /\ player[s].pc = "tts_check"
  /\ player[s].i < player[s].n
  /\ ~interrupt_speech
  /\ player' = [player EXCEPT
                  ![s].pc = IF raised THEN "tts_after" ELSE "tts_play",
                  ![s].cut = @ \/ raised]
  /\ UNCHANGED <<objvars, violations, cfgvars, client, dbvars, ctlvars, turnvars, listener, hit>>

\* Lines 596-605 without the exit of say and without the safety timeout: the
\* chunk ends only when the flag is seen.
ChunkEndsWhenInterrupted(s) ==
  /\ player[s].pc = "tts_play"
  /\ interrupt_speech
  /\ player' = [player EXCEPT ![s].pc = "tts_after", ![s].cut = TRUE]
  /\ UNCHANGED <<objvars, violations, cfgvars, client, dbvars, ctlvars, turnvars, listener, hit>>

\* words[i:i+chunk_size] (line 586): the number of words of the chunk at i.
ChunkWords(s) == Min2(player[s].i + ChunkSize, player[s].n) - player[s].i

\* Lines 596-611: the chunk ends: say exits, its words played, or say is
\* killed: the flag is seen (597-600), the safety timeout is reached (602-604)
\* or proc.wait times out (610-611).
ChunkEnds(s) ==
  /\ player[s].pc = "tts_play"
  /\ \E killed \in BOOLEAN :
       player' = [player EXCEPT
                    ![s].pc = "tts_after",
                    ![s].played = IF killed THEN @ ELSE @ + ChunkWords(s),
                    ![s].cut = @ \/ killed]
  /\ UNCHANGED <<objvars, violations, cfgvars, client, dbvars, ctlvars, turnvars, listener, hit>>

\* The range of line 575 with a step of chunk_size + 1.
ChunkNextSkipsWord(s) ==
  /\ player[s].pc = "tts_after"
  /\ player' = [player EXCEPT
                  ![s].pc = IF interrupt_speech THEN "p_end" ELSE "tts_check",
                  ![s].i = IF interrupt_speech THEN @ ELSE @ + ChunkSize + 1]
  /\ UNCHANGED <<objvars, violations, cfgvars, client, dbvars, ctlvars, turnvars, listener, hit>>

\* Lines 608-616: break when interrupted, else the next chunk.
ChunkNext(s) ==
  /\ player[s].pc = "tts_after"
  /\ player' = [player EXCEPT
                  ![s].pc = IF interrupt_speech THEN "p_end" ELSE "tts_check",
                  ![s].i = IF interrupt_speech THEN @ ELSE @ + ChunkSize]
  /\ UNCHANGED <<objvars, violations, cfgvars, client, dbvars, ctlvars, turnvars, listener, hit>>

\* Line 618: self.speaking = False.
PlayerEnds(s) ==
  /\ player[s].pc = "p_end"
  /\ speaking' = FALSE
  /\ SetPc(s, "p_stop")
  /\ UNCHANGED <<interrupt_speech, background_listener_stop, speech_thread,
                 is_listening, use_elevenlabs, violations, cfgvars, client, dbvars, ctlvars,
                 turnvars, listener, hit>>

\* The listener the player's cleanup stops: the one self.background_listener_stop
\* holds at that time.
StoppedBy(s) == background_listener_stop

\* Lines 621-630: stop the background listener, if any, and clear the handle.
PlayerStopMonitor(s) ==
  /\ player[s].pc = "p_stop"
  /\ IF background_listener_stop # 0
       THEN /\ listener' = [listener EXCEPT ![StoppedBy(s)].state = "stopped"]
            /\ background_listener_stop' = 0
       ELSE UNCHANGED <<listener, background_listener_stop>>
  /\ SetPc(s, "p_done")
  /\ UNCHANGED <<speaking, interrupt_speech, speech_thread, is_listening,
                 use_elevenlabs, violations, cfgvars, client, dbvars, ctlvars, turnvars, hit>>

(* --------- the listener thread, _interruption_callback (176-206) ------ *)

\* Lines 181-188: audio is detected by a running listener; the callback passes
\* its guard (speaking, not yet interrupted) and calls the recognizer.
CallbackEnters(s) ==
  /\ listener[s].state = "running"
  /\ listener[s].cb = "idle"
  /\ speaking
  /\ ~interrupt_speech
  /\ listener' = [listener EXCEPT ![s].cb = "recognizing"]
  /\ UNCHANGED <<objvars, violations, cfgvars, client, dbvars, ctlvars, turnvars, player, hit>>

\* TRUE iff the callback sets interrupt_speech for this recognizer outcome.
Interrupts(outcome) == outcome # "empty"

\* The violation the callback logs for the outcome, "" for none.
CallbackViolation(outcome) ==
  CASE outcome = "text" -> "Speech interrupted by user input"
    [] outcome = "unknown_value" ->
         "Speech interrupted by audio detection (untranscribable)"
    [] outcome = "request_error" ->
         "Speech interrupted by audio detection (recognition error)"
    [] OTHER -> ""

\* Lines 188-206: the recognizer returns or raises.
CallbackReturns(s, outcome) ==
  /\ listener[s].cb = "recognizing"
  /\ listener' = [listener EXCEPT ![s].cb = "idle"]
  /\ interrupt_speech' = IF Interrupts(outcome) THEN TRUE ELSE interrupt_speech
  /\ hit' = IF Interrupts(outcome) THEN hit \cup Playing ELSE hit
  /\ violations' =
       IF CallbackViolation(outcome) = "" THEN violations
       ELSE LogViolation(violations, CallbackViolation(outcome))
  /\ UNCHANGED <<speaking, background_listener_stop, speech_thread,
                 is_listening, use_elevenlabs, cfgvars, client, dbvars, ctlvars, turnvars,
                 player>>

(* ------------- a client of speak() and process_input() ---------------- *)

\* The client calls speak(text) on the constructed object (lines 712-714).
ClientSpeak(text) ==
  /\ pc = "cl_speak"
  /\ turns' = turns + 1
  /\ SpeakText(turns + 1, text)
  /\ pc' = "cl_call"
  /\ UNCHANGED <<violations, cfgvars, client, dbvars, polls, user_input, turnvars>>

\* The client calls process_input(text) without waiting for the playback.
ClientProcess(text) ==
  /\ pc = "cl_call"
  /\ user_input' = text
  /\ pc' = "pi_silence"
  /\ polls' = 0
  /\ UNCHANGED <<objvars, violations, cfgvars, client, dbvars, turns, turnvars, thrvars>>

\* The client's thread is between two calls of the public methods.
ClientBetweenCalls == pc \in {"cl_speak", "cl_call", "pi_returned", "pi_raised"}

\* One more call of a public method that returns at once.
Called(op, got) == [op |-> op, n |-> client.n + 1, got |-> got]

\* Lines 707-710, stop_listening(): is_listening = False and nothing else;
\* this variant also ends the speech, as voice_chat's finally clause does.
ClientStopListeningEndsSpeech ==
  /\ ClientBetweenCalls
  /\ client.n < MaxCalls
  /\ is_listening' = FALSE
  /\ speaking' = FALSE
  /\ client' = Called("stop_listening", client.got)
  /\ UNCHANGED <<interrupt_speech, background_listener_stop,
                 speech_thread, use_elevenlabs, violations, cfgvars, dbvars,
                 ctlvars, turnvars, thrvars>>

\* Lines 707-710, stop_listening(): is_listening = False and nothing else.
ClientStopListening ==
  /\ ClientBetweenCalls
  /\ client.n < MaxCalls
  /\ is_listening' = FALSE
  /\ client' = Called("stop_listening", client.got)
  /\ UNCHANGED <<speaking, interrupt_speech, background_listener_stop,
                 speech_thread, use_elevenlabs, violations, cfgvars, dbvars,
                 ctlvars, turnvars, thrvars>>

\* Lines 716-718, get_violations(): a copy of the list, in the list's order.
ClientGetViolations ==
  /\ ClientBetweenCalls
  /\ client.n < MaxCalls
  /\ client' = Called("get_violations",
                      [i \in 1..Len(violations) |-> violations[i]])
  /\ UNCHANGED <<objvars, violations, cfgvars, dbvars, ctlvars, turnvars, thrvars>>

\* Lines 720-723, clear_violations(): the list is emptied.
ClientClearViolations ==
  /\ ClientBetweenCalls
  /\ client.n < MaxCalls
  /\ violations' = <<>>
  /\ client' = Called("clear_violations", client.got)
  /\ UNCHANGED <<objvars, cfgvars, dbvars, ctlvars, turnvars, thrvars>>

(* ------- the conversation store (database.py, database_firebase.py) ---- *)

\* MAX_CONVERSATIONS, the same in both backends.
MAX_CONVERSATIONS == 10

\* max_response_words of the WrappedGrok that api_server.py constructs.
ApiResponseWords == 20

\* Conversations the store holds when the server starts.
MaxStored == 17
\* Requests the server handles in one run.
MaxRequests == 3

\* The backends of api_server.py, Firebase tried first.
Backends == {"firebase", "sqlite"}

\* An id of the client's choice the server has generated for no conversation
\* (the server's own ids are the even timestamps).
ForeignId == 1

Ids(convs) == {convs[i] : i \in 1..Len(convs)}

Without(convs, id) == SelectSeq(convs, LAMBDA c : c # id)

\* updated_at = utcnow(): the conversation becomes the most recent one.
Touch(convs, id) == <<id>> \o Without(convs, id)

\* The store as the operations of one request see it; raised: an operation
\* has raised, the ones after it in the handler are not executed.
Stored ==
  [conversations |-> conversations, messages |-> messages, raised |-> FALSE]

\* The stores a server can find at its start: k conversations of two messages
\* each, as k chats at the times 2, 4, ... left them.
StoreOf(k) ==
  [conversations |-> [i \in 1..k |-> 2 * (k - i + 1)],
   messages |-> {[id |-> 2 * c + d, conversation_id |-> 2 * c] :
                   c \in 1..k, d \in {0, 1}}]

\* create_conversation: SQLite inserts a row and refuses a second row of the
\* same id (IntegrityError at the commit); Firestore sets the document.
CreateConversation(backend, st, id) ==
  IF st.raised THEN st
  ELSE IF backend = "sqlite" /\ id \in Ids(st.conversations)
    THEN [st EXCEPT !.raised = TRUE]
    ELSE [st EXCEPT !.conversations = Touch(@, id)]

\* add_message: SQLite inserts the message (refusing a second message of the
\* same id, nothing is committed then) and updates updated_at if the
\* conversation exists; Firestore sets the message document, then updates the
\* conversation document, which raises if there is none.
AddMessage(backend, st, message_id, conversation_id) ==
  LET message == [id |-> message_id, conversation_id |-> conversation_id]
      exists == conversation_id \in Ids(st.conversations)
      touched == IF exists THEN Touch(st.conversations, conversation_id)
                 ELSE st.conversations
  IN  IF st.raised THEN st
      ELSE IF backend = "sqlite"
        THEN IF \E m \in st.messages : m.id = message_id
               THEN [st EXCEPT !.raised = TRUE]
               ELSE [st EXCEPT !.messages = @ \cup {message},
                               !.conversations = touched]
        ELSE [st EXCEPT !.messages =
                          {m \in @ : m.id # message_id} \cup {message},
                        !.conversations = touched,
                        !.raised = ~exists]

\* delete_conversation without the deletion of the messages.
DeleteConversationKeepsMessages(st, id) ==
  [st EXCEPT !.conversations = Without(@, id)]

\* delete_conversation, both backends: the messages of the conversation
\* first, then the conversation.
DeleteConversation(st, id) ==
  [st EXCEPT !.messages = {m \in @ : m.conversation_id # id},
             !.conversations = Without(@, id)]

RECURSIVE DeleteEach(_, _)
\* for conv in to_delete: delete_conversation(conv['id'])
DeleteEach(st, to_delete) ==
  IF to_delete = <<>> THEN st
  ELSE DeleteEach(DeleteConversation(st, Head(to_delete)), Tail(to_delete))

\* all_conversations of cleanup_old_conversations: SQLite reads all rows,
\* Firestore the first MAX_CONVERSATIONS + 5 of the query.
AllConversations(backend, convs) ==
  IF backend = "firebase"
    THEN SubSeq(convs, 1, Min2(Len(convs), MAX_CONVERSATIONS + 5))
    ELSE convs

\* cleanup_old_conversations: what all_conversations holds after the first
\* MAX_CONVERSATIONS is deleted with its messages; SQLite deletes in its own
\* session, Firestore through delete_conversation.
CleanupOldConversations(backend, st) ==
  LET all_conversations == AllConversations(backend, st.conversations)
      to_delete ==
        IF Len(all_conversations) > MAX_CONVERSATIONS
          THEN SubSeq(all_conversations, MAX_CONVERSATIONS + 1,
                      Len(all_conversations))
          ELSE <<>>
  IN  IF st.raised THEN st
      ELSE IF backend = "firebase" THEN DeleteEach(st, to_delete)
      ELSE [st EXCEPT
              !.messages = {m \in @ : m.conversation_id \notin Ids(to_delete)},
              !.conversations =
                SelectSeq(@, LAMBDA c : c \notin Ids(to_delete))]

\* Lines 112-138 of chat: get or create the conversation, then store the
\* user's message and the assistant's, the ids made of the time.
StoreExchange(backend, st, req, timestamp) ==
  LET conversation_id ==
        IF req.conversation_id = NoId THEN timestamp ELSE req.conversation_id
      ensured ==
        IF req.conversation_id = NoId
           \/ conversation_id \notin Ids(st.conversations)
          THEN CreateConversation(backend, st, conversation_id)
          ELSE st
      user_message_id ==
        IF req.message_id = NoId THEN timestamp ELSE req.message_id
      with_user ==
        AddMessage(backend, ensured, user_message_id, conversation_id)
  IN  AddMessage(backend, with_user, timestamp + 1, conversation_id)

\* The conversation ids a client sends: of the most recent and of the oldest
\* conversation, and one of its own.
KnownConversations ==
  {ForeignId} \cup
  (IF conversations = <<>> THEN {}
   ELSE {Head(conversations), conversations[Len(conversations)]})

\* The message ids a client sends: of the messages of the most recent
\* conversation.
KnownMessages ==
  IF conversations = <<>> THEN {}
  ELSE {m.id : m \in {k \in messages :
                         k.conversation_id = Head(conversations)}}

\* POST /api/chat, lines 106-110: the request arrives and process_input is
\* called with its message.
ApiChat(conversation_id, message_id) ==
  /\ db # "none"
  /\ pc = "cl_call"
  /\ request.n < MaxRequests
  /\ request' = [kind |-> "chat", conversation_id |-> conversation_id,
                 message_id |-> message_id, n |-> request.n + 1]
  /\ cleaned' = NotCleaned
  /\ user_input' = PlainInput
  /\ pc' = "pi_silence"
  /\ polls' = 0
  /\ UNCHANGED <<objvars, violations, cfgvars, client, db, conversations,
                 messages, now, turns, turnvars, thrvars>>

\* Lines 112-149: process_input has returned; the exchange is stored and the
\* old conversations are cleaned up, or a store operation raises and the
\* handler answers 500 with what was stored until then.
ApiChatStores ==
  /\ pc = "pi_returned"
  /\ request.kind = "chat"
  /\ LET st == StoreExchange(db, Stored, request, now)
         done == CleanupOldConversations(db, st)
     IN  /\ conversations' = done.conversations
         /\ messages' = done.messages
         /\ cleaned' = [ran |-> ~st.raised, before |-> st.conversations]
  /\ now' = now + 2
  /\ request' = [NoRequest EXCEPT !.n = request.n]
  /\ pc' = "cl_call"
  /\ ForgetTurn
  /\ UNCHANGED <<objvars, violations, cfgvars, client, db, polls, turns,
                 thrvars>>

\* Lines 148-149: process_input raised; 500, nothing is stored.
ApiChatFails ==
  /\ pc = "pi_raised"
  /\ request.kind = "chat"
  /\ now' = now + 2
  /\ request' = [NoRequest EXCEPT !.n = request.n]
  /\ pc' = "cl_call"
  /\ ForgetTurn
  /\ UNCHANGED <<objvars, violations, cfgvars, client, db, conversations,
                 messages, cleaned, polls, turns, thrvars>>

\* DELETE /api/conversations/{conversation_id}, lines 169-176.
ApiDeleteConversation(conversation_id) ==
  /\ db # "none"
  /\ pc = "cl_call"
  /\ request.n < MaxRequests
  /\ LET done == DeleteConversation(Stored, conversation_id)
     IN  /\ conversations' = done.conversations
         /\ messages' = done.messages
  /\ cleaned' = NotCleaned
  /\ now' = now + 2
  /\ request' = [request EXCEPT !.n = @ + 1]
  /\ UNCHANGED <<objvars, violations, cfgvars, client, db, ctlvars, turnvars,
                 thrvars>>

\* cleanup_old_conversations called on the store by itself.
ApiCleanup ==
  /\ db # "none"
  /\ pc = "cl_call"
  /\ request.n < MaxRequests
  /\ LET done == CleanupOldConversations(db, Stored)
     IN  /\ conversations' = done.conversations
         /\ messages' = done.messages
  /\ cleaned' = [ran |-> TRUE, before |-> conversations]
  /\ now' = now + 2
  /\ request' = [request EXCEPT !.n = @ + 1]
  /\ UNCHANGED <<objvars, violations, cfgvars, client, db, ctlvars, turnvars,
                 thrvars>>

(* --------------------------- specifications --------------------------- *)

\* voice_chat's own steps.
Chat(heard) ==
  \/ ChatInterrupted
  \/ ChatPoll
  \/ ChatSilent
  \/ ChatHeardNothing
  \/ \E text \in heard : ChatHeard(text)
  \/ ChatExit
  \/ ChatProcess
  \/ ChatSpeak
  \/ ChatSkipSpeak
  \/ ChatJoined
  \/ ChatJoinTimeout
  \/ ChatHandlesError
  \/ ChatFinally

\* process_input's own steps.
Process(searches) ==
  \/ ProcessInterrupted
  \/ ProcessPoll
  \/ ProcessSilent
  \/ \E outcome \in searches : ProcessSearch(outcome)
  \/ ProcessShape
  \/ ProcessShapeRaises

\* _query_grok's steps.
Query(posts, replies) ==
  \/ QueryKeyNotSet
  \/ QueryStart
  \/ \E outcome \in posts, reply \in replies : QueryPost(outcome, reply)
  \/ QueryAfterLoop

PlayerElevenLabs(s) ==
  \/ PlayerBranchElevenLabs(s)
  \/ \E result \in {"ok", "error"} : GenerateAudio(s, result)
  \/ ElevenLabsWaitEnds(s)
  \/ ElevenLabsGenerationFailed(s)
  \/ ElevenLabsPlayStarts(s)
  \/ ElevenLabsPlaySkipped(s)
  \/ \E raised \in BOOLEAN : ElevenLabsPlayEnds(s, raised)

PlayerSystem(s) ==
  \/ \E started \in BOOLEAN : PlayerStartMonitor(s, started)
  \/ PlayerBranchSystem(s)
  \/ SystemTtsGate(s)
  \/ ChunksDone(s)
  \/ ChunkBreak(s)
  \/ \E raised \in BOOLEAN : ChunkStart(s, raised)
  \/ ChunkEnds(s)
  \/ ChunkNext(s)
  \/ PlayerEnds(s)
  \/ PlayerStopMonitor(s)

Listener(s, recognized) ==
  \/ CallbackEnters(s)
  \/ \E outcome \in recognized : CallbackReturns(s, outcome)

\* Spec: voice_chat on the system TTS backend with the search installed, the
\* completion service answering the first attempt with a reply, with None or
\* with a 400 that is no model error.
Next ==
  \/ Chat({PlainInput, ExitInput})
  \/ Process({"context"})
  \/ Query({"ok", "ok_null", "s400_other"}, {LongReply})
  \/ \E s \in Sessions : PlayerSystem(s)
  \/ \E s \in Sessions : Listener(s, {"text"})

InitSystem == Init /\ ~use_elevenlabs /\ serpapi_installed

Spec == InitSystem /\ [][Next]_vars

\* SpecTurn: one turn processed while an utterance is being spoken: a client
\* calls speak(text) and then process_input(input), on either TTS backend, with
\* every outcome of the search, of the completion service and of the recognizer.
Client ==
  \/ \E text \in Replies : ClientSpeak(text)
  \/ \E text \in {PlainInput, ExplainInput} : ClientProcess(text)

NextTurn ==
  \/ Client
  \/ Process(SearchOutcomes)
  \/ Query({"ok", "ok_null", "s400_model"}, {ShortReply})
  \/ \E s \in Sessions : PlayerSystem(s)
  \/ \E s \in Sessions : PlayerElevenLabs(s)
  \/ \E s \in Sessions : Listener(s, RecognizeOutcomes)

InitTurn == Constructed /\ pc = "cl_speak" /\ NoStore

SpecTurn == InitTurn /\ [][NextTurn]_vars

\* SpecClient: a client calls speak(text), then process_input(input), and
\* between its calls stop_listening(), get_violations() and
\* clear_violations(), while the utterance is played by the system TTS.
NextClient ==
  \/ ClientSpeak(ShortReply)
  \/ ClientProcess(PlainInput)
  \/ ClientStopListening
  \/ ClientGetViolations
  \/ ClientClearViolations
  \/ Process({"failed"})
  \/ Query({"ok_null", "timeout", "s400_other"}, {ShortReply})
  \/ PlayerSystem(1)
  \/ Listener(1, {"text", "other_error"})

InitClient == InitTurn /\ ~use_elevenlabs /\ serpapi_installed

SpecClient == InitClient /\ [][NextClient]_vars

\* The steps of the player thread of session s.
PlayerRuns(s) == PlayerSystem(s) \/ PlayerElevenLabs(s)

\* SpecChat: voice_chat with replies of one chunk, its thread and the player
\* threads being scheduled as long as they can take a step.
NextChat ==
  \/ Chat({PlainInput, ExitInput})
  \/ Process({"context"})
  \/ Query({"ok", "ok_null", "s400_other"}, {ShortReply})
  \/ \E s \in Sessions : PlayerSystem(s)
  \/ \E s \in Sessions : Listener(s, {"text"})

SpecChat ==
  /\ InitSystem
  /\ [][NextChat]_vars
  /\ WF_vars(Chat({PlainInput, ExitInput}) \/ Process({"context"})
               \/ Query({"ok", "ok_null", "s400_other"}, {ShortReply}))
  /\ \A s \in Sessions : WF_vars(PlayerRuns(s))

\* SpecSpeak: a client calls speak(text); the call starts a player thread, on
\* either TTS backend, with the listener callback running.  A started thread
\* keeps running (the threads are scheduled, and the audio generation, the
\* playback and say return or are cut off by the timeouts); the listener hears
\* something or nothing.
NextSpeak ==
  \/ \E text \in Replies : ClientSpeak(text)
  \/ \E s \in Sessions : PlayerSystem(s)
  \/ \E s \in Sessions : PlayerElevenLabs(s)
  \/ \E s \in Sessions : Listener(s, RecognizeOutcomes)

SpecSpeak ==
  /\ InitTurn
  /\ [][NextSpeak]_vars
  /\ \A s \in Sessions : WF_vars(PlayerRuns(s))

\* SpecComplete: process_input called on the constructed object while nothing
\* is spoken (as the chat endpoint of api_server.py does), with every outcome
\* of the search and of each request to the completion service.
NextComplete ==
  \/ \E text \in {PlainInput, ExplainInput} : ClientProcess(text)
  \/ ProcessPoll
  \/ ProcessSilent
  \/ \E outcome \in SearchOutcomes : ProcessSearch(outcome)
  \/ Query(PostOutcomes, Replies)
  \/ ProcessShape
  \/ ProcessShapeRaises

InitComplete == Constructed /\ ~use_elevenlabs /\ pc = "cl_call" /\ NoStore

SpecComplete == InitComplete /\ [][NextComplete]_vars

\* SpecShape: _limit_response_length applied, as the last step of
\* process_input, to every reply of ShapeReplies under every limit of
\* ShapeLimits: the first request was answered with the reply.
InitShape ==
  /\ speaking = FALSE
  /\ interrupt_speech = FALSE
  /\ background_listener_stop = 0
  /\ speech_thread = 0
  /\ is_listening = FALSE
  /\ use_elevenlabs = FALSE
  /\ violations = <<>>
  /\ api_key_set = TRUE
  /\ serpapi_installed = TRUE
  /\ max_response_words \in ShapeLimits
  /\ pc = "pi_shape"
  /\ polls = 1
  /\ turns = 0
  /\ user_input \in ShapeInputs
  /\ gate = "passed"
  /\ search_calls = 1
  /\ search_log = <<[query |-> SearchQuery(user_input), requested |-> TRUE,
                     outcome |-> "empty"]>>
  /\ search_context = FALSE
  /\ \E reply \in ShapeReplies :
       /\ attempts = <<[model |-> ModelAt(1), user |-> user_input,
                        context |-> FALSE, outcome |-> "ok"]>>
       /\ last_response = Received("ok", reply)
       /\ qresult = ReturnOf("ok", reply)
  /\ response = None
  /\ player = [s \in Sessions |-> IdlePlayer]
  /\ listener = [s \in Sessions |-> IdleListener]
  /\ hit = {}
  /\ client = NoCall
  /\ NoStore

NextShape == ProcessShape

SpecShape == InitShape /\ [][NextShape]_vars

\* SpecSearch: process_input called on the constructed object with inputs that
\* hold a claim or not and are longer than the query limit or not, and with
\* every outcome of the search.
NextSearch ==
  \/ \E text \in SearchInputs : ClientProcess(text)
  \/ ProcessPoll
  \/ ProcessSilent
  \/ \E outcome \in SearchOutcomes \cup ResponseShapes : ProcessSearch(outcome)
  \/ Query({"ok", "s400_other"}, {ShortReply})
  \/ ProcessShape

SpecSearch == InitComplete /\ [][NextSearch]_vars

\* SpecStore: the chat and delete endpoints of api_server.py, and the cleanup,
\* on either backend.  The store outlives the server: at the start it holds
\* what earlier runs left, up to MaxStored conversations.  The completion
\* service answers the request with a reply or with None.
InitStore ==
  /\ speaking = FALSE
  /\ interrupt_speech = FALSE
  /\ background_listener_stop = 0
  /\ speech_thread = 0
  /\ is_listening = FALSE
  /\ use_elevenlabs = FALSE
  /\ violations = <<>>
  /\ api_key_set = TRUE
  /\ serpapi_installed = TRUE
  /\ max_response_words = ApiResponseWords
  /\ pc = "cl_call"
  /\ polls = 0
  /\ turns = 0
  /\ user_input = None
  /\ gate = "none"
  /\ search_calls = 0
  /\ search_log = <<>>
  /\ search_context = FALSE
  /\ attempts = <<>>
  /\ last_response = NoResponse
  /\ qresult = NoResult
  /\ response = None
  /\ player = [s \in Sessions |-> IdlePlayer]
  /\ listener = [s \in Sessions |-> IdleListener]
  /\ hit = {}
  /\ client = NoCall
  /\ db \in Backends
  /\ \E k \in 0..MaxStored :
       /\ conversations = StoreOf(k).conversations
       /\ messages = StoreOf(k).messages
       /\ now = 2 * k + 2
  /\ request = NoRequest
  /\ cleaned = NotCleaned

NextStore ==
  \/ \E conversation_id \in {NoId} \cup KnownConversations,
        message_id \in {NoId} \cup KnownMessages :
       ApiChat(conversation_id, message_id)
  \/ ProcessPoll
  \/ ProcessSilent
  \/ ProcessSearch("context")
  \/ QueryStart
  \/ \E outcome \in {"ok", "ok_null"} : QueryPost(outcome, ShortReply)
  \/ ProcessShape
  \/ ProcessShapeRaises
  \/ ApiChatStores
  \/ ApiChatFails
  \/ \E conversation_id \in KnownConversations :
       ApiDeleteConversation(conversation_id)
  \/ ApiCleanup

SpecStore == InitStore /\ [][NextStore]_vars

(* ------------------------------ claims -------------------------------- *)

\* _query_grok has returned.
QueryLeft == pc \in {"pi_shape", "pi_returned", "pi_raised"}

\* C1: when the silence wait of process_input observes an interruption, the
\* call returns "Interrupted" and has made no search and no request to the
\* completion service (claim extraction is part of the search step).
C1_InterruptedReturnsEarly ==
  gate = "interrupted" =>
    /\ pc = "pi_returned"
    /\ response = InterruptedText
    /\ search_calls = 0
    /\ attempts = <<>>
    /\ qresult = NoResult

C1_Witness ==
  /\ gate = "interrupted"
  /\ pc = "pi_returned"
  /\ \E s \in Sessions : player[s].pc # "idle"

\* C2: within one speech session the interrupted flag is monotonic: once it is
\* true, no step leaves it false while a session that was playing is still
\* playing (its player has not yet set speaking to False).
C2_InterruptedMonotonic ==
  [][(interrupt_speech /\ \E s \in Playing : s \in Playing')
       => interrupt_speech']_vars

\* C3: at most one speech session is active at any time: no two player threads
\* run at once.
C3_AtMostOneSession == Cardinality(Alive) <= 1

\* A step in which the player of session s starts a chunk of its utterance (a
\* say process, or the ElevenLabs playback).
ChunkStarted(s) ==
  \/ player[s].pc = "tts_check" /\ player'[s].pc \in {"tts_play", "tts_after"}
  \/ player[s].pc = "el_check" /\ player'[s].pc = "el_play"

\* C4: once interrupted has become true in a session, the player of that
\* session starts no further chunk.
C4_NoChunkAfterInterrupt ==
  [][\A s \in hit : ~ChunkStarted(s)]_vars

\* C5: whenever a session has ended, the listener started for it has been
\* stopped and its handle cleared.
C5_MonitorStoppedAtEnd ==
  \A s \in Sessions :
    player[s].pc = "p_done" =>
      listener[s].state # "running" /\ background_listener_stop # s

\* C6: interrupted only ever changes from false to true in a state where
\* speaking is true.
C6_SetOnlyWhileSpeaking ==
  [][(~interrupt_speech /\ interrupt_speech') => speaking]_vars

\* C7: _query_grok posts to the models in the configured order, each at most
\* once, and the first 200 response that carries a reply ends the loop: no
\* later model is tried and that reply is what _query_grok returns.
C7_OrderedUntilFirstSuccess ==
  /\ Len(attempts) <= Len(ModelNames)
  /\ \A i \in DOMAIN attempts :
       /\ attempts[i].model = ModelNames[i]
       /\ attempts[i].outcome = "ok" =>
            /\ i = Len(attempts)
            /\ QueryLeft
            /\ qresult = [kind |-> "reply", text |-> last_response.content]
            /\ qresult.text \in Replies

C7_Witness ==
  /\ Len(attempts) = 3
  /\ attempts[1].outcome = "s400_model"
  /\ attempts[2].outcome = "s400_model"
  /\ attempts[3].outcome = "ok"
  /\ qresult.kind = "reply"

\* C8: a 401, or any other 4xx/5xx response that is not a "model not
\* available" 400, ends the attempts: no later model is posted to.
C8_OtherErrorStops ==
  \A i \in DOMAIN attempts :
    attempts[i].outcome \in {"s400_other", "s401", "s404", "s429", "s500"}
      => i = Len(attempts)

\* C9: when every response is a "model not available" 400, every configured
\* model is posted to exactly once and _query_grok then returns the error
\* text of the exhausted loop, not a reply.
C9_AllModelsExhausted ==
  (/\ attempts # <<>>
   /\ \A i \in DOMAIN attempts : attempts[i].outcome = "s400_model")
  => /\ pc \in {"q_loop", "q_after"} \/ QueryLeft
     /\ pc = "q_loop" <=> Len(attempts) < Len(ModelNames)
     /\ QueryLeft =>
          /\ \A i \in DOMAIN ModelNames : attempts[i].model = ModelNames[i]
          /\ qresult = [kind |-> "no_response", text |-> NoResponseText]
          /\ qresult.text \notin Replies

C9_Witness ==
  /\ Len(attempts) = Len(ModelNames)
  /\ \A i \in DOMAIN attempts : attempts[i].outcome = "s400_model"
  /\ pc = "pi_returned"
  /\ response = NoResponseText

\* C10: a connection failure or a timeout of a request ends _query_grok with
\* the error text of that failure; none of the remaining models is tried.
C10_TransportFailureStops ==
  \A i \in DOMAIN attempts :
    attempts[i].outcome \in {"connection_error", "timeout"} =>
      /\ i = Len(attempts)
      /\ QueryLeft
      /\ qresult.kind = attempts[i].outcome
      /\ qresult.text = IF attempts[i].outcome = "timeout"
                          THEN TimeoutText ELSE ConnectionErrorText

C10_Witness ==
  /\ Len(attempts) = 2
  /\ attempts[1].outcome = "s400_model"
  /\ attempts[2].outcome \in {"connection_error", "timeout"}
  /\ pc = "pi_returned"

\* C11: process_input never raises: whatever the silence gate, the search and
\* the completion service do, the call returns a text.
C11_ReturnsText ==
  /\ pc # "pi_raised"
  /\ pc = "pi_returned" => ~response.none

\* The violations of the log that are not those of the search step.
TurnViolations ==
  {v \in DOMAIN violations :
     violations[v].message \notin
       {"Web search failed", "Web search attempted but SerpAPI not installed"}}

\* C12: a process_input call that ends on a failure path (the gate was
\* interrupted, or _query_grok failed with an HTTP error status, a connection
\* error, a timeout, an unexpected error or exhausted models) has appended
\* exactly one violation.
C12_OneViolationPerFailure ==
  (/\ pc = "pi_returned"
   /\ \/ gate = "interrupted"
      \/ qresult.kind \in {"http_error", "no_response", "connection_error",
                           "timeout", "unexpected_error", "request_error"})
  => Cardinality(TurnViolations) = 1

\* C14: the steps of a turn run in order: the silence gate has ended before
\* the search starts, the search has completed before _query_grok starts, and
\* _query_grok has returned before the response is shaped.
C14_StepsInOrder ==
  /\ pc = "pi_silence" =>
       search_log = <<>> /\ attempts = <<>> /\ qresult = NoResult
  /\ search_log # <<>> => gate = "passed"
  /\ pc = "pi_search" => attempts = <<>> /\ qresult = NoResult
  /\ (pc \in {"q_start", "q_loop", "q_after"} \/ attempts # <<>>
        \/ qresult # NoResult)
       => gate = "passed" /\ Len(search_log) = 1
  /\ pc \in {"pi_search", "q_start", "q_loop", "q_after"} => response = None
  /\ pc = "pi_shape" => qresult # NoResult /\ response = None
  /\ (gate = "passed" /\ pc \in {"pi_returned", "pi_raised"}) =>
       qresult # NoResult

C14_Witness ==
  /\ pc = "pi_returned"
  /\ gate = "passed"
  /\ Len(search_log) = 1
  /\ Len(attempts) = 2
  /\ qresult.kind = "reply"
  /\ response = qresult.text

\* process_input is past its search step.
SearchDone == pc \in {"q_start", "q_loop", "q_after", "pi_shape", "pi_returned"}

\* C13: a failed search does not end the turn: the failure is in the
\* violation log, the context is none, and _query_grok is called with the
\* input the caller gave and no context.
C13_SearchFailureAbsorbed ==
  \A k \in DOMAIN search_log :
    search_log[k].outcome = "failed" =>
      /\ SearchDone
      /\ search_context = FALSE
      /\ \E v \in DOMAIN violations :
           violations[v].message = "Web search failed"
      /\ user_input \in SearchInputs
      /\ \A a \in DOMAIN attempts :
           attempts[a].user = user_input /\ attempts[a].context = FALSE
      /\ pc = "pi_returned" => qresult # NoResult

C13_Witness ==
  /\ Len(search_log) = 1
  /\ search_log[1].outcome = "failed"
  /\ Len(attempts) = 1
  /\ pc = "pi_returned"

Shaped == pc = "pi_returned"

\* The shaper was given more words than the limit and no keyword.
Cuts ==
  /\ Shaped
  /\ user_input \notin KeywordInputs
  /\ Len(qresult.text.w) > max_response_words

\* C16: a reply of at most max_response_words words is returned unchanged,
\* whatever the input, and nothing is logged.
C16_ShortReplyUnchanged ==
  (Shaped /\ Len(qresult.text.w) <= max_response_words) =>
    response = qresult.text /\ violations = <<>>

C16_Witness ==
  /\ Shaped
  /\ user_input = PlainInput
  /\ Len(qresult.text.w) = max_response_words
  /\ qresult.text.w[max_response_words - 1] = "fine."
  /\ response = qresult.text

\* C17: when the input contains the explain keyword, in any letter case, the
\* reply is returned unchanged whatever its length.
C17_KeywordNeverTruncates ==
  (Shaped /\ user_input \in KeywordInputs) => response = qresult.text

C17_Witness ==
  /\ Shaped
  /\ user_input = ExplainInput
  /\ Len(qresult.text.w) = MaxReplyLen
  /\ response = qresult.text

\* C18: for a reply of more than max_response_words words and an input
\* without the keyword, the output has at most max_response_words words or
\* ends in terminal punctuation, and its words are a prefix of the reply's.
C18_TruncatedWithinLimit ==
  Cuts =>
    /\ \/ Len(response.w) <= max_response_words
       \/ ~response.ell /\ response.w[Len(response.w)] \in {"fine."}
    /\ Len(response.w) <= Len(qresult.text.w)
    /\ response.w = SubSeq(qresult.text.w, 1, Len(response.w))

C18_Witness ==
  /\ Cuts
  /\ Len(response.w) = max_response_words
  /\ response.w[max_response_words] = "a"
  /\ qresult.text.w[max_response_words + 1] = "a"

\* C19: a truncation returns words[0..i] for the greatest index i of the
\* range max(0, max_response_words - 5) .. max_response_words - 1, both ends
\* included, whose word ends in '.', '!' or '?', and the first
\* max_response_words words only when the range holds no such word.
C19_GreatestBoundaryInWindow ==
  Cuts =>
    LET words == qresult.text.w
        window == {i \in Max2(0, max_response_words - 5)
                           .. (max_response_words - 1) :
                     words[i + 1] = "fine."}
    IN response.w = IF window # {}
                      THEN SubSeq(words, 1, SetMax(window) + 1)
                      ELSE SubSeq(words, 1, max_response_words)

\* C20: a truncation that does not end in '.', '!' or '?' ends with the
\* ellipsis marker.
C20_EllipsisWhenCutMidSentence ==
  (Cuts /\ response.w[Len(response.w)] # "fine.") => response.ell

\* C21: a call of _limit_response_length that truncates appends exactly one
\* violation, which carries the word count of the reply and of the output; a
\* call that returns the reply as it is appends none.
C21_TruncationLoggedOnce ==
  Shaped =>
    IF response # qresult.text
      THEN violations = <<[message |-> "Response truncated",
                           a |-> Len(qresult.text.w),
                           b |-> Len(response.w)]>>
      ELSE violations = <<>>

C21_Witness ==
  /\ Shaped
  /\ Len(qresult.text.w) = MaxReplyLen
  /\ Len(response.w) = max_response_words - 1
  /\ Len(violations) = 1

\* _query_grok returned an error text.
QueryFailed ==
  qresult.kind \in {"key_not_set", "http_error", "no_response",
                    "connection_error", "timeout", "request_error",
                    "unexpected_error"}

\* C25: when _query_grok fails, process_input returns its error text as it
\* is: the text is not truncated and no truncation violation is logged.
C25_ErrorTextNotShaped ==
  (pc = "pi_returned" /\ QueryFailed) =>
    /\ response = qresult.text
    /\ \A v \in DOMAIN violations :
         violations[v].message # "Response truncated"

\* C26: when the model loop ends on a response with an error status, the
\* error text is chosen by that status (401: invalid key, 400: invalid
\* request, 404: endpoint not found, 429: rate limit, otherwise the text with
\* the status) and a violation carrying the status is logged.
C26_ErrorClassifiedByStatus ==
  (QueryLeft /\ attempts # <<>>
    /\ attempts[Len(attempts)].outcome \in
         {"s400_model", "s400_other", "s401", "s404", "s429", "s500"})
  => /\ qresult.kind = "http_error"
     /\ qresult.text =
          CASE last_response.status = 401 -> InvalidKeyText
            [] last_response.status = 400 -> InvalidRequestText
            [] last_response.status = 404 -> EndpointNotFoundText
            [] last_response.status = 429 -> RateLimitText
            [] OTHER -> ReturnedStatusText
     /\ \E v \in DOMAIN violations :
          violations[v] = [message |-> "Grok API error",
                           a |-> last_response.status, b |-> 0]

\* C27: _query_grok returns a reply only for a 200 response that carries a
\* usable reply; a 200 response without one ends the attempts with an error
\* text and a violation.
C27_ReplyOnlyFromUsable200 ==
  /\ qresult.kind = "reply" =>
       /\ attempts # <<>>
       /\ attempts[Len(attempts)].outcome = "ok"
       /\ last_response.status = 200
  /\ \A i \in DOMAIN attempts :
       attempts[i].outcome \in {"ok_null", "ok_unusable"} =>
         /\ i = Len(attempts)
         /\ QueryLeft
         /\ QueryFailed
         /\ ~qresult.text.none
         /\ \E v \in DOMAIN violations :
              violations[v].message = "Grok API unexpected error"

IsPrefix(a, b) == Len(a) <= Len(b) /\ SubSeq(b, 1, Len(a)) = a

\* The step is a call of the public method op.
Calls(op) == client'.n # client.n /\ client'.op = op

\* C22: across every step that is not a clear_violations call the earlier
\* violation list is a prefix of the later one; only clear_violations empties
\* it; get_violations returns the entries in the order they were appended.
C22_LogAppendOnly ==
  [][/\ ~Calls("clear_violations") => IsPrefix(violations, violations')
     /\ Calls("clear_violations") => violations' = <<>>
     /\ Calls("get_violations") =>
          client'.got = violations /\ violations' = violations]_vars

C22_Witness ==
  /\ client.op = "get_violations"
  /\ Len(client.got) >= 2
  /\ client.got = violations
  /\ client.got[1].message # client.got[2].message

\* C24: every stop_listening call leaves is_listening False, and changes
\* neither the speaking flag, nor the interrupted flag, nor the monitor's stop
\* handle, nor the violation list; a second call changes nothing.
C24_StopListeningNeutral ==
  [][Calls("stop_listening") =>
       /\ ~is_listening'
       /\ UNCHANGED <<speaking, interrupt_speech, background_listener_stop,
                      violations>>
       /\ client.op = "stop_listening" =>
            UNCHANGED <<objvars, violations, thrvars>>]_vars

C24_Witness ==
  /\ client.op = "stop_listening"
  /\ client.n >= 2
  /\ ~is_listening
  /\ speaking
  /\ background_listener_stop # 0
  /\ violations # <<>>

\* C23: speak() returns with the player thread just started, not waiting for
\* the playback; every started session ends, interrupted or not: its player
\* thread terminates, and speaking becomes False.
C23_SessionTerminates ==
  /\ [][turns' # turns =>
          pc' = "cl_call" /\ speaking' /\ player'[turns'].pc = "p_start"]_vars
  /\ \A s \in Sessions :
       player[s].pc # "idle" ~> (player[s].pc = "p_done" /\ Alive = {})
  /\ speaking ~> (~speaking /\ Alive = {})

C23_Witness ==
  /\ pc = "cl_call"
  /\ player[1].pc = "p_done"
  /\ ~speaking
  /\ 1 \in hit

\* C28: the query of the turn's search call is the first sentence of the
\* input that is a claim, cut to 150 characters, when there is one, and the
\* input itself, cut to 150 characters, when there is none.
C28_QueryFromFirstClaim ==
  (gate = "passed" /\ SearchDone) =>
    /\ Len(search_log) = 1
    /\ search_log[1].query =
         CASE user_input = MoonInput ->
                [from |-> "claim", chars |-> 28,
                 words |-> <<"The", "moon", "landing", "was", "in", "1969">>]
           [] user_input = FactInput ->
                [from |-> "claim", chars |-> 28,
                 words |-> <<"The", "moon", "landing", "was", "in", "1969">>]
           [] user_input = TwoFactInput ->
                [from |-> "claim", chars |-> 11,
                 words |-> <<"It", "was", "fine">>]
           [] user_input = LongFactInput ->
                [from |-> "claim", chars |-> 150, words |-> LongFactInput.w]
           [] user_input = LongInput ->
                [from |-> "input", chars |-> 150, words |-> LongInput.w]
           [] user_input = PlainInput ->
                [from |-> "input", chars |-> 12, words |-> PlainInput.w]
           [] user_input = ExplainInput ->
                [from |-> "input", chars |-> 22, words |-> ExplainInput.w]

C28_Witness ==
  /\ pc = "pi_returned"
  /\ user_input = TwoFactInput
  /\ Len(search_log) = 1
  /\ search_log[1].query.from = "claim"
  /\ search_log[1].query.words = <<"It", "was", "fine">>
  /\ search_log[1].outcome = "context"

\* C29: every step of the listener callback that sets interrupt_speech appends
\* exactly one violation that tells the cause; the flag is never set without
\* one.
C29_InterruptLogged ==
  [][(~interrupt_speech /\ interrupt_speech') =>
       /\ Len(violations') = Len(violations) + 1
       /\ IsPrefix(violations, violations')
       /\ violations'[Len(violations')].message \in
            {CallbackViolation(outcome) : outcome \in RecognizeOutcomes} \ {""}]_vars

\* The player of session s has begun to synthesize or to play: the audio
\* generation was started (line 543) or the first chunk was (line 587).
Synthesizing(s) ==
  \/ player[s].gen # "none"
  \/ player[s].pc \in {"el_play", "tts_play", "tts_after"}

C31_SpeakingWhilePlaying ==
  \A s \in Sessions :
    (player[s].gen = "pending" \/ player[s].pc \in {"el_play", "tts_play"})
      => speaking

\* The session s is spoken by the system TTS alone and was not interrupted.
SystemUninterrupted(s) ==
  /\ player[s].gen = "none"
  /\ player[s].pc \in {"tts_check", "tts_play", "tts_after", "p_end", "p_stop",
                        "p_done"}
  /\ s \notin hit
  /\ ~interrupt_speech

\* The chunks of session s are played one after the other, in the order of the
\* text, five words each: the words before the chunk in hand have been played,
\* those after it have not, and at the end all words have.
InTextOrder(s) ==
  /\ player[s].i % ChunkSize = 0
  /\ player[s].pc \in {"tts_check", "tts_play"} =>
       player[s].played = Min2(player[s].i, player[s].n)
  /\ player[s].pc = "tts_after" =>
       player[s].played = Min2(player[s].i + ChunkSize, player[s].n)
  /\ player[s].pc \in {"p_end", "p_stop", "p_done"} =>
       player[s].played = player[s].n

C32_PlaybackAborted ==
  [][\A s \in Sessions :
       (/\ interrupt_speech
        /\ player[s].pc \in {"el_play", "tts_play"}
        /\ player'[s].pc \notin {"el_play", "tts_play"}
        /\ player'[s].played = player[s].n)
       => player[s].played + ChunkSize >= player[s].n]_vars

\* The ElevenLabs branch of session s has raised (lines 552-553 or 559) and
\* the handler of lines 563-567 has run.
FellBack(s) == player[s].gen \in {"raised", "play_error"}

\* C38: when ElevenLabs raises while generating or playing, the same thread
\* goes on to the system TTS with the same text: it plays every chunk from the
\* first word on, starts no chunk while interrupt_speech is set, and ends.
C38_FallbackSpeaksUtterance ==
  /\ [](\A s \in Sessions :
         FellBack(s) =>
           /\ ~use_elevenlabs
           /\ player[s].pc \in {"tts_gate", "tts_check", "tts_play",
                                 "tts_after", "p_end", "p_stop", "p_done"}
           /\ player[s].pc = "tts_gate" => player[s].played = 0
           /\ (s \notin hit /\ ~interrupt_speech /\ ~player[s].cut
                  /\ player[s].pc # "tts_gate") => InTextOrder(s))
  /\ [][\A s \in Sessions :
          (FellBack(s) /\ player'[s].pc = "tts_play" /\ player[s].pc # "tts_play")
            => ~interrupt_speech]_vars
  /\ \A s \in Sessions : FellBack(s) ~> player[s].pc = "p_done"

C38_Witness ==
  /\ player[1].gen = "play_error"
  /\ player[1].pc = "p_done"
  /\ player[1].n = Len(LongReply.w)
  /\ player[1].played = player[1].n
  /\ 1 \notin hit

\* C33: _search_web returns the direct answer, when the response has one,
\* followed by the "title: snippet" entries of up to 3 organic results, in
\* result order, joined by " | ", and None only when the response has neither
\* a direct answer nor an organic snippet, or when the search fails.
C33_ContextFromAnswerAndSnippets ==
  (SearchDone /\ search_log # <<>> /\ search_log[1].requested) =>
    LET outcome == search_log[1].outcome
        expected ==
          CASE outcome = "context" -> "t1: s1"
            [] outcome = "answer_only" -> "Direct answer: 42"
            [] outcome = "answer_no_snippets" -> "Direct answer: 42"
            [] outcome = "answer_and_four" ->
                 "Direct answer: 42 | t1: s1 | t3: s3"
            [] OTHER -> ""
    IN /\ search_context = (expected # "")
       /\ outcome # "failed" =>
            SearchWeb(ResponseOf(outcome)) =
              [none |-> expected = "", text |-> expected]

\* C35: the interruption does not outlive its session: a process_input call
\* that starts when the interrupted session has ended (speaking False, no
\* player thread running) does not find interrupt_speech set, and a call that
\* has not polled yet is not aborted at the silence gate.
C35_InterruptionEndsWithSession ==
  /\ [][(/\ pc = "cl_call" /\ pc' = "pi_silence"
          /\ ~speaking /\ Alive = {} /\ hit # {})
         => ~interrupt_speech']_vars
  /\ [][(/\ pc = "pi_silence" /\ polls = 0
          /\ ~speaking /\ Alive = {} /\ hit # {})
         => gate' # "interrupted"]_vars

\* C36: after a reply was interrupted and its session has ended, voice_chat
\* reaches _listen_and_transcribe again.
C36_ListensAfterInterruption ==
  (pc = "vc_silence" /\ hit # {} /\ Alive = {} /\ ~speaking)
    ~> (pc = "vc_listen")

\* C37: on an exit phrase in any letter case voice_chat speaks the goodbye and
\* leaves the loop without calling process_input; when it has returned,
\* is_listening and speaking are False.
C37_ExitPhraseEndsChat ==
  /\ [][(pc = "vc_heard" /\ user_input = ExitInput /\ pc' # pc) =>
          /\ pc' = "vc_finally"
          /\ speaking'
          /\ player'[turns].pc = "p_start"
          /\ player'[turns].n = Len(GoodbyeText.w)
          /\ violations' = violations]_vars
  /\ [][(pc = "vc_finally" /\ pc' # pc) => pc' = "vc_done"]_vars
  /\ [](pc = "vc_done" => ~is_listening /\ ~speaking)

C37_Witness ==
  /\ pc = "vc_done"
  /\ turns = 2
  /\ player[2].n = Len(GoodbyeText.w)
  /\ player[2].pc = "p_done"
  /\ player[2].played = player[2].n
  /\ ~speaking

\* C39: after cleanup_old_conversations has returned, at most
\* MAX_CONVERSATIONS conversations remain in the store, on either backend and
\* whatever number it found, and they are the most recently updated ones, in
\* their order.
C39_CleanupKeepsLastTen ==
  cleaned.ran =>
    /\ Len(conversations) <= MAX_CONVERSATIONS
    /\ conversations =
         SubSeq(cleaned.before, 1,
                Min2(Len(cleaned.before), MAX_CONVERSATIONS))

\* C40: every stored message refers to a stored conversation, after every
\* request: a deleted or cleaned-up conversation leaves no message, and chat
\* stores no message for a conversation that does not exist.
C40_MessagesHaveConversation ==
  \A m \in messages : m.conversation_id \in Ids(conversations)

\* A chat has stored its two messages in a new conversation and its cleanup
\* has deleted the oldest conversation, which had messages.
C40_Witness ==
  /\ cleaned.ran
  /\ Len(cleaned.before) = MAX_CONVERSATIONS + 1
  /\ Len(conversations) = MAX_CONVERSATIONS
  /\ Cardinality({m \in messages : m.conversation_id = Head(conversations)}) = 2
  /\ Head(conversations) = now - 2
  /\ \A m \in messages : m.conversation_id \in Ids(conversations)


=============================================================================
